---- MODULE Spec2Model ----
(***************************************************************************)
(* Model of app_dash.py: a Dash dashboard that records daily sales in a    *)
(* Google spreadsheet and derives filtered views and a simplified          *)
(* financial result from it.                                               *)
(*                                                                         *)
(* Units.  Amounts of money are exact integers in centavos (1/100 real).   *)
(* The values of a financial result are exact integers in Milli-centavos   *)
(* (1/1000 centavo), the finest unit in which 6 %, x 1.55 and a percentage *)
(* given in tenths are all whole.  The binary rounding of Python floats is *)
(* not modelled.  A margin is an exact fraction <<numerator, denominator>>.*)
(* Dates are day ordinals (days since 1970-01-01) of the proleptic         *)
(* Gregorian calendar, as in a pandas Timestamp at midnight.               *)
(***************************************************************************)
EXTENDS Integers, Sequences, FiniteSets, TLC

VARIABLES
    sheet,      \* the worksheet 'Vendas': [cols, rows]
    store,      \* dcc.Store 'store-sales-data': JSON of the processed table
    sel,        \* filter-anos, filter-meses, filter-dias: the values selected
    filtered,   \* what apply_filters returned last: 'store-filtered-data', 'filter-summary'
    form,       \* input-date, input-cartao, input-dinheiro, input-pix
    message,    \* 'output-message': the alert last shown by submit_new_sale
    arg,        \* the arguments of a direct call of one of the functions
    out         \* what that call returned

vars == <<sheet, store, sel, filtered, form, message, arg, out>>

(***************************************************************************)
(* Bounds of the model.                                                    *)
(***************************************************************************)
MaxRows == 2        \* rows of the worksheets and tables the runs start from
MaxSheetRows == 2   \* rows up to which the worksheet takes submissions

(***************************************************************************)
(* Sequences                                                               *)
(***************************************************************************)
RECURSIVE SeqsUpTo(_, _)
SeqsUpTo(S, n) ==
    IF n = 0 THEN {<<>>}
    ELSE LET shorter == SeqsUpTo(S, n - 1)
         IN  shorter \cup {Append(s, x) : s \in {t \in shorter : Len(t) = n - 1}, x \in S}

Range(s) == {s[i] : i \in 1..Len(s)}

RECURSIVE SumSeq(_)
SumSeq(s) == IF s = <<>> THEN 0 ELSE Head(s) + SumSeq(Tail(s))

Max(S) == CHOOSE x \in S : \A y \in S : y <= x

(***************************************************************************)
(* Calendar: what pandas computes for Timestamp construction, .dt.year,    *)
(* .dt.month, .dt.day and .dt.dayofweek.                                   *)
(***************************************************************************)
IsLeap(y) == (y % 4 = 0 /\ y % 100 # 0) \/ y % 400 = 0

DaysInMonth(y, m) ==
    IF m = 2 THEN (IF IsLeap(y) THEN 29 ELSE 28)
    ELSE IF m \in {4, 6, 9, 11} THEN 30 ELSE 31

\* A calendar date datetime.strptime accepts.
ValidCivil(y, m, d) ==
    /\ y \in 1..9999
    /\ m \in 1..12
    /\ d >= 1 /\ d <= DaysInMonth(y, m)

\* A calendar date pandas can hold in a datetime64[ns] column.
ValidDate(y, m, d) == ValidCivil(y, m, d) /\ y \in 1678..2261

DaysFromCivil(y, m, d) ==
    LET yy  == IF m <= 2 THEN y - 1 ELSE y
        era == yy \div 400
        yoe == yy - era * 400
        mp  == IF m > 2 THEN m - 3 ELSE m + 9
        doy == (153 * mp + 2) \div 5 + d - 1
        doe == yoe * 365 + yoe \div 4 - yoe \div 100 + doy
    IN  era * 146097 + doe - 719468

CivilFromDays(n) ==
    LET z   == n + 719468
        era == z \div 146097
        doe == z - era * 146097
        yoe == (doe - doe \div 1460 + doe \div 36524 - doe \div 146096) \div 365
        doy == doe - (365 * yoe + yoe \div 4 - yoe \div 100)
        mp  == (5 * doy + 2) \div 153
        d   == doy - (153 * mp + 2) \div 5 + 1
        m   == IF mp < 10 THEN mp + 3 ELSE mp - 9
        y   == yoe + era * 400 + (IF m <= 2 THEN 1 ELSE 0)
    IN  [y |-> y, m |-> m, d |-> d]

\* Series.dt.dayofweek: Monday is 0 (1970-01-01 was a Thursday).
DayOfWeek(n) == (n + 3) % 7

(***************************************************************************)
(* Cells.  A worksheet cell, a DataFrame cell and the value of an input    *)
(* component are tagged values of one shape: k is the kind, n the number   *)
(* (an amount in centavos, or a day ordinal), and sep, f spell a string of *)
(* three numbers a<sep>b<sep>c.                                            *)
(***************************************************************************)
Cell(k, n, sep, f) == [k |-> k, n |-> n, sep |-> sep, f |-> f]

Num(v)    == Cell("num", v, "", <<0, 0, 0>>)      \* a number
NumStr(v) == Cell("numstr", v, "", <<0, 0, 0>>)   \* a string that spells the number v
Text      == Cell("text", 0, "", <<0, 0, 0>>)     \* a string that spells no number and no date
Blank     == Cell("blank", 0, "", <<0, 0, 0>>)    \* the empty string ''
NaN       == Cell("nan", 0, "", <<0, 0, 0>>)      \* float NaN
Ts(n)     == Cell("ts", n, "", <<0, 0, 0>>)       \* a Timestamp at midnight
NaT       == Cell("nat", 0, "", <<0, 0, 0>>)      \* the null Timestamp
None      == Cell("none", 0, "", <<0, 0, 0>>)     \* Python None
DStr(sep, a, b, c) == Cell("str", 0, sep, <<a, b, c>>)  \* the string a<sep>b<sep>c

\* Series.isnull()
IsNull(c) == c.k \in {"nat", "nan", "none"}

\* Python truth value of a number, a string or None
Truthy(c) ==
    CASE c.k = "num" -> c.n # 0
      [] c.k \in {"none", "blank"} -> FALSE
      [] OTHER -> TRUE

\* pd.to_numeric(x, errors='coerce')
to_numeric(c) ==
    CASE c.k = "num"    -> c
      [] c.k = "numstr" -> Num(c.n)
      [] OTHER          -> NaN

\* a fillna that fills nothing
fillna_nada(c) == c

\* Series.fillna(0)
fillna0(c) == IF c.k = "nan" THEN Num(0) ELSE c

\* Series.replace('', 0)
replace_blank(c) == IF c.k = "blank" THEN Num(0) ELSE c

\* pd.to_datetime(x, format='%d/%m/%Y', errors='coerce')
to_datetime_strict(c) ==
    CASE c.k = "ts" -> c
      [] c.k = "str" ->
           IF c.sep = "/" /\ ValidDate(c.f[3], c.f[2], c.f[1])
           THEN Ts(DaysFromCivil(c.f[3], c.f[2], c.f[1]))
           ELSE NaT
      [] OTHER -> NaT

\* pd.to_datetime(x, dayfirst=True, errors='coerce'): day/month/year with
\* either separator, or an ISO year-month-day string (dayfirst does not
\* apply to it).
to_datetime_dayfirst(c) ==
    CASE c.k = "ts" -> c
      [] c.k = "str" ->
           IF c.sep \in {"/", "-"} /\ ValidDate(c.f[3], c.f[2], c.f[1])
           THEN Ts(DaysFromCivil(c.f[3], c.f[2], c.f[1]))
           ELSE IF c.sep = "-" /\ ValidDate(c.f[1], c.f[2], c.f[3])
           THEN Ts(DaysFromCivil(c.f[1], c.f[2], c.f[3]))
           ELSE NaT
      [] OTHER -> NaT

\* pd.to_datetime(x) of the ISO strings DataFrame.to_json(date_format='iso') writes
to_datetime_iso(c) ==
    CASE c.k = "ts" -> c
      [] c.k = "str" ->
           IF c.sep = "-" /\ ValidDate(c.f[1], c.f[2], c.f[3])
           THEN Ts(DaysFromCivil(c.f[1], c.f[2], c.f[3]))
           ELSE NaT
      [] OTHER -> NaT

\* Timestamp -> "YYYY-MM-DDT00:00:00.000" (to_json, date_format='iso')
iso_format(c) ==
    IF c.k = "ts"
    THEN LET ymd == CivilFromDays(c.n) IN DStr("-", ymd.y, ymd.m, ymd.d)
    ELSE IF IsNull(c) THEN None ELSE c

(***************************************************************************)
(* Tables.  A worksheet and a DataFrame are [cols, rows]: cols the names   *)
(* of the columns present, rows a sequence of records.  A record holds a   *)
(* field for every column of the model; the field of a column that is not  *)
(* in cols is a placeholder nothing reads.  The display-only columns       *)
(* MesNome, DataFormatada, AnoMes and DiaDoMes are carried in cols only.   *)
(***************************************************************************)
AmountCols == {"Cartao", "Dinheiro", "Pix"}
SheetCols  == {"Data"} \cup AmountCols
DateCols   == {"Ano", "Mes", "MesNome", "DiaSemana", "DataFormatada", "AnoMes", "DiaDoMes"}

Row(data, cartao, dinheiro, pix) ==
    [Data |-> data, Cartao |-> cartao, Dinheiro |-> dinheiro, Pix |-> pix,
     Total |-> NaN, Ano |-> 0, Mes |-> 0, DiaSemana |-> 0]

Frame(cols, rows) == [cols |-> cols, rows |-> rows]

\* DataFrame.dropna(subset=['Data'])
dropna_Data(rows) ==
    LET Keep(r) == ~IsNull(r.Data) IN SelectSeq(rows, Keep)

\* df['Data'].isnull().all()
all_null_Data(rows) == \A i \in 1..Len(rows) : IsNull(rows[i].Data)

\* pd.api.types.is_datetime64_any_dtype(df['Data']): the column holds
\* Timestamps (and NaT) only
is_datetime64(rows) == \A i \in 1..Len(rows) : rows[i].Data.k \in {"ts", "nat"}

\* pd.DataFrame(columns=['Data', 'Cartao', 'Dinheiro', 'Pix'])
EmptySales == Frame(SheetCols, <<>>)

\* a get_worksheet that hands back a worksheet whatever the connection
get_worksheet_sempre(connected, sh) == [ok |-> TRUE, sh |-> sh]

\* The worksheet, or None: get_google_auth and the two gspread calls may fail.
get_worksheet(connected, sh) == [ok |-> connected, sh |-> sh]

\* a read_sales_data in which an error while reading goes unnoticed
read_sem_except(connected, raises, sh) ==
    LET ws == get_worksheet(connected, sh)
        Amount(r, col) ==
            IF col \in sh.cols THEN fillna0(to_numeric(replace_blank(r[col]))) ELSE Num(0)
        Coerce(r) ==
            [r EXCEPT !.Cartao = Amount(r, "Cartao"),
                      !.Dinheiro = Amount(r, "Dinheiro"),
                      !.Pix = Amount(r, "Pix")]
        Strict(r) == [r EXCEPT !.Data = to_datetime_strict(r.Data)]
        DayFirst(r) == [r EXCEPT !.Data = to_datetime_dayfirst(r.Data)]
        rows1 == [i \in 1..Len(ws.sh.rows) |-> Coerce(ws.sh.rows[i])]
        rows2 == [i \in 1..Len(rows1) |-> Strict(rows1[i])]
        rows3 == IF all_null_Data(rows2) THEN [i \in 1..Len(rows2) |-> DayFirst(rows2[i])] ELSE rows2
    IN  IF ~ws.ok THEN EmptySales
        ELSE IF ws.sh.rows = <<>> THEN EmptySales
        ELSE IF "Data" \in sh.cols
             THEN Frame(sh.cols \cup AmountCols, dropna_Data(rows3))
             ELSE Frame(sh.cols \cup AmountCols, rows1)

(***************************************************************************)
(* read_sales_data.  `raises` says whether a gspread or pandas call inside *)
(* the try block raises.                                                   *)
(***************************************************************************)
read_sales_data(connected, raises, sh) ==
    LET ws == get_worksheet(connected, sh)
        Amount(r, col) ==
            IF col \in sh.cols THEN fillna0(to_numeric(replace_blank(r[col]))) ELSE Num(0)
        Coerce(r) ==
            [r EXCEPT !.Cartao = Amount(r, "Cartao"),
                      !.Dinheiro = Amount(r, "Dinheiro"),
                      !.Pix = Amount(r, "Pix")]
        Strict(r) == [r EXCEPT !.Data = to_datetime_strict(r.Data)]
        DayFirst(r) == [r EXCEPT !.Data = to_datetime_dayfirst(r.Data)]
        rows1 == [i \in 1..Len(ws.sh.rows) |-> Coerce(ws.sh.rows[i])]
        rows2 == [i \in 1..Len(rows1) |-> Strict(rows1[i])]
        \* line 106 parses the column line 104 has already overwritten
        rows3 == IF all_null_Data(rows2) THEN [i \in 1..Len(rows2) |-> DayFirst(rows2[i])] ELSE rows2
    IN  IF ~ws.ok \/ raises THEN EmptySales
        ELSE IF ws.sh.rows = <<>> THEN EmptySales
        ELSE IF "Data" \in sh.cols
             THEN Frame(sh.cols \cup AmountCols, dropna_Data(rows3))
             ELSE Frame(sh.cols \cup AmountCols, rows1)

(***************************************************************************)
(* process_data                                                            *)
(***************************************************************************)
ProcessedEmpty ==
    Frame(SheetCols \cup {"Total", "Ano", "Mes", "MesNome", "DiaSemana"}, <<>>)

\* a Total that leaves Pix out
TotalOf_SemPix(r) == Num(r.Cartao.n + r.Dinheiro.n)

\* df['Total'] = df['Cartao'] + df['Dinheiro'] + df['Pix']
TotalOf(r) == Num(r.Cartao.n + r.Dinheiro.n + r.Pix.n)

\* the columns derived from a valid date
DateInfo(r) ==
    LET ymd == CivilFromDays(r.Data.n)
    IN  [r EXCEPT !.Ano = ymd.y, !.Mes = ymd.m, !.DiaSemana = DayOfWeek(r.Data.n)]

process_data(df_input) ==
    LET Amount(r, col) ==
            IF col \in df_input.cols THEN fillna0(to_numeric(r[col])) ELSE Num(0)
        Coerce(r) ==
            [r EXCEPT !.Cartao = Amount(r, "Cartao"),
                      !.Dinheiro = Amount(r, "Dinheiro"),
                      !.Pix = Amount(r, "Pix")]
        WithTotal(r) == [r EXCEPT !.Total = TotalOf(r)]
        DayFirst(r) == [r EXCEPT !.Data = to_datetime_dayfirst(r.Data)]
        cols1 == df_input.cols \cup AmountCols \cup {"Total"}
        rows1 == [i \in 1..Len(df_input.rows) |-> WithTotal(Coerce(df_input.rows[i]))]
        rows2 == IF is_datetime64(rows1) THEN rows1 ELSE [i \in 1..Len(rows1) |-> DayFirst(rows1[i])]
        rows3 == dropna_Data(rows2)
    IN  IF df_input.rows = <<>> THEN ProcessedEmpty
        ELSE IF "Data" \in df_input.cols /\ ~all_null_Data(rows1)
             THEN IF rows3 # <<>>
                  THEN Frame(cols1 \cup DateCols, [i \in 1..Len(rows3) |-> DateInfo(rows3[i])])
                  ELSE Frame(cols1, rows3)
             ELSE Frame(cols1, rows1)

(***************************************************************************)
(* The stores hold DataFrame.to_json(date_format='iso', orient='split'),   *)
(* or None before the first callback.  pd.read_json gives the table back   *)
(* with Data as the ISO strings ('Data' is not a name read_json converts). *)
(***************************************************************************)
NoStore == [none |-> TRUE, cols |-> {}, rows |-> <<>>]

to_json(df) ==
    LET Iso(r) == [r EXCEPT !.Data = iso_format(r.Data)]
    IN  [none |-> FALSE, cols |-> df.cols, rows |-> [i \in 1..Len(df.rows) |-> Iso(df.rows[i])]]

read_json(js) == Frame(js.cols, js.rows)

\* pd.DataFrame()
NoFrame == Frame({}, <<>>)

\* a load that misses the last row of the worksheet
load_sem_ultima(connected, raises, fails, sh) ==
    LET n == Len(sh.rows)
        read == [sh EXCEPT !.rows = IF n = 0 THEN <<>> ELSE SubSeq(sh.rows, 1, n - 1)]
    IN  IF fails THEN to_json(NoFrame)
        ELSE to_json(process_data(read_sales_data(connected, raises, read)))

\* load_sales_data; `fails` says whether a call outside the functions' own
\* try blocks raises
load_sales_data(connected, raises, fails, sh) ==
    IF fails THEN to_json(NoFrame)
    ELSE to_json(process_data(read_sales_data(connected, raises, sh)))

(***************************************************************************)
(* Filters.  A selection is the set of the values selected in a multi      *)
(* dropdown; the empty set stands for [] and for None alike.               *)
(***************************************************************************)
\* df[df['Ano'].isin(selected_anos)], when years are selected
filter_by_anos(df, anos) ==
    LET Keep(r) == r.Ano \in anos
    IN  IF anos # {} /\ "Ano" \in df.cols THEN Frame(df.cols, SelectSeq(df.rows, Keep)) ELSE df

\* a month filter that gives the table back when no record matches
filter_by_meses_ou_tudo(df, meses) ==
    LET Keep(r) == r.Mes \in meses
    IN  IF meses # {} /\ "Mes" \in df.cols /\ SelectSeq(df.rows, Keep) # <<>>
        THEN Frame(df.cols, SelectSeq(df.rows, Keep))
        ELSE df

\* df[df['Mes'].isin(selected_meses)], when months are selected
filter_by_meses(df, meses) ==
    LET Keep(r) == r.Mes \in meses
    IN  IF meses # {} /\ "Mes" \in df.cols THEN Frame(df.cols, SelectSeq(df.rows, Keep)) ELSE df

\* a window of max_dias + 1 days: timedelta(days=max_dias)
filter_by_rolling_days_mais_um(df, dias_selecionados) ==
    LET dates == {df.rows[i].Data.n : i \in {j \in 1..Len(df.rows) : df.rows[j].Data.k = "ts"}}
        data_inicio == Max(dates) - Max(dias_selecionados)
        Keep(r) == r.Data.k = "ts" /\ dates # {} /\ r.Data.n >= data_inicio
    IN  IF df.rows = <<>> \/ dias_selecionados = {} \/ "Data" \notin df.cols
        THEN df
        ELSE Frame(df.cols, SelectSeq(df.rows, Keep))

\* Series.max() skips NaT and is NaT when nothing is left; a comparison
\* with NaT is False.
filter_by_rolling_days(df, dias_selecionados) ==
    LET dates == {df.rows[i].Data.n : i \in {j \in 1..Len(df.rows) : df.rows[j].Data.k = "ts"}}
        data_mais_recente == Max(dates)
        max_dias == Max(dias_selecionados)
        data_inicio == data_mais_recente - (max_dias - 1)
        Keep(r) == r.Data.k = "ts" /\ dates # {} /\ r.Data.n >= data_inicio
    IN  IF df.rows = <<>> \/ dias_selecionados = {} \/ "Data" \notin df.cols
        THEN df
        ELSE Frame(df.cols, SelectSeq(df.rows, Keep))

SumCol(df, col) == SumSeq([i \in 1..Len(df.rows) |-> df.rows[i][col].n])

SemDados  == "Sem dados disponiveis"
ErroFiltros == "Erro ao aplicar filtros"
Resumo    == "Resumo dos Filtros"

\* the window taken on the whole table, before the year and month filters
apply_filters_janela_antes(data_json, selected_anos, selected_meses, selected_dias) ==
    LET df0 == read_json(data_json)
        ToDate(r) == [r EXCEPT !.Data = to_datetime_iso(r.Data)]
        df == Frame(df0.cols, [i \in 1..Len(df0.rows) |-> ToDate(df0.rows[i])])
        f0 == IF selected_dias # {} THEN filter_by_rolling_days(df, selected_dias) ELSE df
        df_filtered == filter_by_meses(filter_by_anos(f0, selected_anos), selected_meses)
    IN  IF data_json.none
        THEN [data |-> NoStore, summary |-> SemDados, registros |-> 0, faturamento |-> 0]
        ELSE IF "Data" \notin df0.cols
        THEN [data |-> NoStore, summary |-> ErroFiltros, registros |-> 0, faturamento |-> 0]
        ELSE [data |-> to_json(df_filtered), summary |-> Resumo,
              registros |-> Len(df_filtered.rows),
              faturamento |-> IF df_filtered.rows # <<>> THEN SumCol(df_filtered, "Total") ELSE 0]

\* apply_filters: [data, summary, registros, faturamento].  df['Data'] of a
\* table without that column raises KeyError, which the except clause
\* turns into (None, error text).
apply_filters(data_json, selected_anos, selected_meses, selected_dias) ==
    LET df0 == read_json(data_json)
        ToDate(r) == [r EXCEPT !.Data = to_datetime_iso(r.Data)]
        df == Frame(df0.cols, [i \in 1..Len(df0.rows) |-> ToDate(df0.rows[i])])
        f1 == filter_by_anos(df, selected_anos)
        f2 == filter_by_meses(f1, selected_meses)
        df_filtered == IF selected_dias # {} THEN filter_by_rolling_days(f2, selected_dias) ELSE f2
    IN  IF data_json.none
        THEN [data |-> NoStore, summary |-> SemDados, registros |-> 0, faturamento |-> 0]
        ELSE IF "Data" \notin df0.cols
        THEN [data |-> NoStore, summary |-> ErroFiltros, registros |-> 0, faturamento |-> 0]
        ELSE [data |-> to_json(df_filtered), summary |-> Resumo,
              registros |-> Len(df_filtered.rows),
              faturamento |-> IF df_filtered.rows # <<>> THEN SumCol(df_filtered, "Total") ELSE 0]

(***************************************************************************)
(* calculate_financial_results.  salario_minimo and custo_contadora are in *)
(* centavos, custo_fornecedores_percentual in tenths of a percent; the     *)
(* results are in Milli-centavos.  A product is taken on the centavos, and *)
(* scaled by 1000 afterwards, so that it stays within TLC's integers.      *)
(***************************************************************************)
Abs(x) == IF x < 0 THEN 0 - x ELSE x

RECURSIVE GCD(_, _)
GCD(a, b) == IF b = 0 THEN a ELSE GCD(b, a % b)

\* the fraction n / d, d > 0, in lowest terms
Frac(n, d) == LET g == GCD(Abs(n), d) IN <<n \div g, d \div g>>

\* (p / r) * 100 for r > 0
Percent(p, r) == LET g == GCD(Abs(p), r) IN Frac((p \div g) * 100, r \div g)

Zero == <<0, 1>>

\* centavos -> Milli-centavos
Mc(x) == x * 1000

\* results['faturamento_tributavel'] * 0.06
imposto_simples_of(tributavel) == (tributavel \div 1000) * 60

\* salario_minimo * 1.55
custo_funcionario_of(salario_minimo) == salario_minimo * 1550

\* results['faturamento_bruto'] * (custo_fornecedores_percentual / 100)
custo_fornecedores_of(bruto, percentual) == (bruto \div 1000) * percentual

\* a total that leaves custo_contadora out
total_custos_sem_contadora(imposto, funcionario, contadora, fornecedores) ==
    imposto + funcionario + fornecedores

total_custos_of(imposto, funcionario, contadora, fornecedores) ==
    imposto + funcionario + contadora + fornecedores

lucro_bruto_of(bruto, total_custos) == bruto - total_custos

\* a net profit that takes the tax, not the taxable revenue, off
lucro_liquido_menos_imposto(bruto, tributavel) == bruto - imposto_simples_of(tributavel)

lucro_liquido_of(bruto, tributavel) == bruto - tributavel

\* (lucro / faturamento_bruto) * 100 if faturamento_bruto > 0, else the initial 0
margem_of(lucro, bruto) == IF bruto > 0 THEN Percent(lucro, bruto) ELSE Zero

\* the dictionary calculate_financial_results starts from
results_init(custo_contadora) ==
    [faturamento_bruto |-> 0, faturamento_tributavel |-> 0,
     faturamento_nao_tributavel |-> 0, imposto_simples |-> 0,
     custo_funcionario |-> 0, custo_contadora |-> Mc(custo_contadora),
     custo_fornecedores_valor |-> 0, total_custos |-> 0,
     lucro_bruto |-> 0, margem_lucro_bruto |-> Zero,
     lucro_liquido |-> 0, margem_lucro_liquido |-> Zero]

\* the dictionary with every entry computed
results_computed(df, salario_minimo, custo_contadora, custo_fornecedores_percentual) ==
    LET init == results_init(custo_contadora)
        faturamento_bruto == Mc(SumCol(df, "Total"))
        faturamento_tributavel == Mc(SumCol(df, "Cartao")) + Mc(SumCol(df, "Pix"))
        faturamento_nao_tributavel == Mc(SumCol(df, "Dinheiro"))
        imposto_simples == imposto_simples_of(faturamento_tributavel)
        custo_funcionario == custo_funcionario_of(salario_minimo)
        custo_fornecedores_valor ==
            custo_fornecedores_of(faturamento_bruto, custo_fornecedores_percentual)
        total_custos == total_custos_of(imposto_simples, custo_funcionario,
                                        init.custo_contadora, custo_fornecedores_valor)
        lucro_bruto == lucro_bruto_of(faturamento_bruto, total_custos)
        lucro_liquido == lucro_liquido_of(faturamento_bruto, faturamento_tributavel)
    IN  [faturamento_bruto |-> faturamento_bruto,
         faturamento_tributavel |-> faturamento_tributavel,
         faturamento_nao_tributavel |-> faturamento_nao_tributavel,
         imposto_simples |-> imposto_simples,
         custo_funcionario |-> custo_funcionario,
         custo_contadora |-> init.custo_contadora,
         custo_fornecedores_valor |-> custo_fornecedores_valor,
         total_custos |-> total_custos,
         lucro_bruto |-> lucro_bruto,
         margem_lucro_bruto |-> margem_of(lucro_bruto, faturamento_bruto),
         lucro_liquido |-> lucro_liquido,
         margem_lucro_liquido |-> margem_of(lucro_liquido, faturamento_bruto)]

\* calculate_financial_results without the early return on an empty table
calculate_sem_retorno(df, salario_minimo, custo_contadora, custo_fornecedores_percentual) ==
    results_computed(df, salario_minimo, custo_contadora, custo_fornecedores_percentual)

calculate_financial_results(df, salario_minimo, custo_contadora, custo_fornecedores_percentual) ==
    IF df.rows = <<>>
    THEN results_init(custo_contadora)
    ELSE results_computed(df, salario_minimo, custo_contadora, custo_fornecedores_percentual)

\* the defaults of l.1199, in centavos and in tenths of a percent
SalarioDefault == 155000
ContadoraDefault == 31600
FornecedoresDefault == 300

\* a parameter that is absent counts as 0
or_zero(c, default) == IF Truthy(c) THEN c.n ELSE 0

\* `value or default`
or_default(c, default) == IF Truthy(c) THEN c.n ELSE default

\* update_contabil_results, up to the result it renders: [view, results]
update_contabil_results(filtered_data, salario, contadora, fornecedores) ==
    LET df == read_json(filtered_data)
    IN  IF filtered_data.none
        THEN [view |-> "Carregando dados...", results |-> results_init(0)]
        ELSE IF df.rows = <<>>
        THEN [view |-> "Sem dados para analise contabil", results |-> results_init(0)]
        ELSE [view |-> "Demonstrativo de Resultados",
              results |-> calculate_financial_results(
                              df, or_default(salario, SalarioDefault),
                              or_default(contadora, ContadoraDefault),
                              or_default(fornecedores, FornecedoresDefault))]

(***************************************************************************)
(* analyze_sales_by_weekday.  DiaSemana is the position of the weekday in  *)
(* dias_semana_ordem, 0 for Segunda-feira .. 6 for Domingo, and NoDay for  *)
(* a null weekday.  A mean is the pair <<sum, count>>.                     *)
(***************************************************************************)
NoDay == 0 - 1

dias_semana_ordem == 0..6

\* the records left by to_numeric(Total) and dropna(subset=['Total', 'DiaSemana'])
weekday_valid(df) ==
    LET Ok(r) == to_numeric(r.Total).k = "num" /\ r.DiaSemana # NoDay
    IN  SelectSeq(df.rows, Ok)

DaySum(rows, d) ==
    SumSeq([i \in 1..Len(rows) |-> IF rows[i].DiaSemana = d THEN to_numeric(rows[i].Total).n ELSE 0])

DayCount(rows, d) == Cardinality({i \in 1..Len(rows) : rows[i].DiaSemana = d})

\* a sum in place of the mean
DayTotal(rows, d) == <<DaySum(rows, d), 1>>

\* groupby('DiaSemana')['Total'].mean() at weekday d
DayMean(rows, d) == <<DaySum(rows, d), DayCount(rows, d)>>

\* a <= b for two means
MeanLeq(a, b) == a[1] * b[2] <= b[1] * a[2]

NoBest == [best_day |-> NoDay, days |-> {}, found |-> FALSE]

\* an idxmax that takes the last weekday with the greatest mean
analyze_ultimo_max(df) ==
    LET rows == weekday_valid(df)
        days == {d \in dias_semana_ordem : DayCount(rows, d) > 0}
        IsMax(d) == \A e \in days : MeanLeq(DayMean(rows, e), DayMean(rows, d))
        best == CHOOSE d \in days : IsMax(d) /\ \A e \in days : IsMax(e) => d >= e
    IN  IF df.rows = <<>> \/ "DiaSemana" \notin df.cols \/ "Total" \notin df.cols
        THEN NoBest
        ELSE IF rows = <<>> THEN NoBest
        ELSE [best_day |-> best, days |-> days, found |-> TRUE]

\* [best_day, days, found]: days are the weekdays of avg_sales_weekday,
\* found is FALSE where the code returns None for best_day.  idxmax is the
\* first weekday, in the order of dias_semana_ordem, with the greatest mean.
analyze_sales_by_weekday(df) ==
    LET rows == weekday_valid(df)
        days == {d \in dias_semana_ordem : DayCount(rows, d) > 0}
        IsMax(d) == \A e \in days : MeanLeq(DayMean(rows, e), DayMean(rows, d))
        best == CHOOSE d \in days : IsMax(d) /\ \A e \in days : IsMax(e) => d <= e
    IN  IF df.rows = <<>> \/ "DiaSemana" \notin df.cols \/ "Total" \notin df.cols
        THEN NoBest
        ELSE IF rows = <<>> THEN NoBest
        ELSE [best_day |-> best, days |-> days, found |-> TRUE]

(***************************************************************************)
(* The chart functions.  A figure is [kind, text, data]: kind "empty" is   *)
(* go.Figure() with nothing in it, kind "annotated" the empty figure with  *)
(* the annotation text, and the other kinds carry the data plotted, a      *)
(* sequence.                                                               *)
(***************************************************************************)
Figure(kind, text, data) == [kind |-> kind, text |-> text, data |-> data]

EmptyFigure == Figure("empty", "", <<>>)

Annotated(text) == Figure("annotated", text, <<>>)

\* the number a cell adds to Series.sum(): NaN is skipped
Summand(c) == IF c.k = "num" THEN c.n ELSE 0

\* the elements of a finite set of integers, ascending
RECURSIVE Ascending(_)
Ascending(S) ==
    IF S = {} THEN <<>>
    ELSE LET least == CHOOSE x \in S : \A y \in S : x <= y
         IN  <<least>> \o Ascending(S \ {least})

\* DataFrame.sort_values('Data'): the rows by date, NaT last
sort_by_Data(rows) ==
    LET Dated(r) == r.Data.k = "ts"
        Undated(r) == ~Dated(r)
        days == Ascending({rows[i].Data.n : i \in {j \in 1..Len(rows) : Dated(rows[j])}})
        RECURSIVE Collect(_)
        Collect(k) ==
            IF k > Len(days) THEN <<>>
            ELSE LET On(r) == Dated(r) /\ r.Data.n = days[k]
                 IN  SelectSeq(rows, On) \o Collect(k + 1)
    IN  Collect(1) \o SelectSeq(rows, Undated)

\* create_daily_sales_chart: the sum of Total per date, by date
create_daily_sales_chart(df) ==
    LET Dated(r) == r.Data.k = "ts"
        days == Ascending({df.rows[i].Data.n : i \in {j \in 1..Len(df.rows) : Dated(df.rows[j])}})
        SumOfDay(n) ==
            SumSeq([i \in 1..Len(df.rows) |->
                       IF Dated(df.rows[i]) /\ df.rows[i].Data.n = n
                       THEN Summand(df.rows[i].Total) ELSE 0])
    IN  IF df.rows = <<>> \/ "Data" \notin df.cols
        THEN Annotated("Sem dados disponiveis")
        ELSE IF days = <<>>
        THEN Annotated("Sem dados para o periodo selecionado")
        ELSE Figure("line", "Evolucao das Vendas Diarias",
                    [k \in 1..Len(days) |-> <<days[k], SumOfDay(days[k])>>])

\* create_payment_method_chart: the methods with a total > 0
create_payment_method_chart(df) ==
    LET Total(c) == SumSeq([i \in 1..Len(df.rows) |-> Summand(df.rows[i][c])])
        Positive(c) == Total(c) > 0
        methods == SelectSeq(<<"Cartao", "Dinheiro", "Pix">>, Positive)
    IN  IF df.rows = <<>> THEN EmptyFigure
        ELSE IF methods = <<>> THEN Annotated("Sem dados de pagamento")
        ELSE Figure("pie", "Distribuicao por Metodo de Pagamento",
                    [k \in 1..Len(methods) |-> <<methods[k], Total(methods[k])>>])

\* df[df['DiaSemana'].notna() & (df['Total'] > 0)]
weekly_valid(df) ==
    LET Ok(r) == r.DiaSemana # NoDay /\ r.Total.k = "num" /\ r.Total.n > 0
    IN  SelectSeq(df.rows, Ok)

\* create_weekly_pattern_chart: one bar per weekday of dias_semana_ordem,
\* the mean of Total over the records kept, 0 for a weekday without any
create_weekly_pattern_chart(df) ==
    LET rows == weekly_valid(df)
        Bar(d) == IF DayCount(rows, d) > 0 THEN DayMean(rows, d) ELSE <<0, 1>>
    IN  IF df.rows = <<>> \/ "DiaSemana" \notin df.cols
        THEN EmptyFigure
        ELSE IF rows = <<>>
        THEN Annotated("Sem dados validos para analise semanal")
        ELSE Figure("bar", "Media de Vendas por Dia da Semana", [k \in 1..7 |-> Bar(k - 1)])

\* create_accumulation_chart: the running sum of Total, by date
create_accumulation_chart(df) ==
    LET sorted == sort_by_Data(df.rows)
        Acc(k) == SumSeq([i \in 1..k |-> Summand(sorted[i].Total)])
    IN  IF df.rows = <<>> \/ "Data" \notin df.cols
        THEN EmptyFigure
        ELSE Figure("scatter", "Evolucao do Capital Acumulado",
                    [k \in 1..Len(sorted) |-> <<sorted[k].Data, Acc(k)>>])

\* create_payment_evolution_chart: the sums of the three methods per month
create_payment_evolution_chart(df) ==
    LET months == Ascending({df.rows[i].Ano * 100 + df.rows[i].Mes : i \in 1..Len(df.rows)})
        SumOf(m, c) ==
            SumSeq([i \in 1..Len(df.rows) |->
                       IF df.rows[i].Ano * 100 + df.rows[i].Mes = m
                       THEN Summand(df.rows[i][c]) ELSE 0])
    IN  IF df.rows = <<>> \/ "AnoMes" \notin df.cols
        THEN EmptyFigure
        ELSE Figure("stacked", "Evolucao dos Metodos de Pagamento",
                    [k \in 1..Len(months) |->
                        <<months[k], SumOf(months[k], "Cartao"),
                          SumOf(months[k], "Dinheiro"), SumOf(months[k], "Pix")>>])

\* a histogram drawn of whatever is given, an empty table included
create_sales_histogram_sem_vazio(df) ==
    Figure("histogram", "Distribuicao dos Valores de Venda",
           [k \in 1..Len(df.rows) |-> Summand(df.rows[k].Total)])

\* create_sales_histogram: the Totals > 0
create_sales_histogram(df) ==
    LET Positive(r) == r.Total.k = "num" /\ r.Total.n > 0
        kept == SelectSeq(df.rows, Positive)
    IN  IF df.rows = <<>> \/ "Total" \notin df.cols
        THEN EmptyFigure
        ELSE IF kept = <<>> THEN EmptyFigure
        ELSE Figure("histogram", "Distribuicao dos Valores de Venda",
                    [k \in 1..Len(kept) |-> kept[k].Total.n])

(***************************************************************************)
(* add_data_to_sheet and submit_new_sale                                   *)
(***************************************************************************)
MsgConexao    == "Erro de conexao com a planilha."
MsgSucesso    == "Dados registrados com sucesso!"
MsgErroAdd    == "Erro ao adicionar dados"
MsgSemData    == "Por favor, selecione uma data."
MsgSemValor   == "Insira pelo menos um valor."

\* float(x) if x else 0.0
to_float(c) == IF Truthy(c) THEN Num(c.n) ELSE Num(0)

\* datetime.strptime(date_str, '%Y-%m-%d') does not raise
strptime_ok(c) == c.k = "str" /\ c.sep = "-" /\ ValidCivil(c.f[1], c.f[2], c.f[3])

\* a date written month first: strftime('%m/%d/%Y')
strftime_mdy(c) == DStr("/", c.f[2], c.f[3], c.f[1])

\* date_obj.strftime('%d/%m/%Y')
strftime_dmy(c) == DStr("/", c.f[3], c.f[2], c.f[1])

\* The header row: the columns present, in the worksheet's order.
HeaderOf(cols) ==
    LET In(c) == c \in cols IN SelectSeq(<<"Data", "Cartao", "Dinheiro", "Pix">>, In)

\* Worksheet.append_row(values): the values go to the first columns of a
\* new last row, whatever the header names them.
append_row(sh, values) ==
    LET h == HeaderOf(sh.cols)
        At(col) == IF \E i \in 1..Len(h) : h[i] = col
                   THEN values[CHOOSE i \in 1..Len(h) : h[i] = col]
                   ELSE Blank
    IN  [sh EXCEPT !.rows = Append(@, Row(At("Data"), At("Cartao"), At("Dinheiro"), At("Pix")))]

\* [success, message, sh]: sh is the worksheet afterwards.  `raises` says
\* whether append_row raises (an API error).
add_data_to_sheet(connected, raises, sh, date_str, cartao, dinheiro, pix) ==
    LET ws == get_worksheet(connected, sh)
        new_row == <<strftime_dmy(date_str), to_float(cartao), to_float(dinheiro), to_float(pix)>>
    IN  IF ~ws.ok THEN [success |-> FALSE, message |-> MsgConexao, sh |-> sh]
        ELSE IF ~strptime_ok(date_str) \/ raises
        THEN [success |-> FALSE, message |-> MsgErroAdd, sh |-> sh]
        ELSE [success |-> TRUE, message |-> MsgSucesso, sh |-> append_row(ws.sh, new_row)]

NoAlert == [text |-> "", color |-> ""]
Alert(text, color) == [text |-> text, color |-> color]

\* cartao == 0.0 and dinheiro == 0.0 and pix == 0.0
no_amount(cartao, dinheiro, pix) == cartao.n = 0 /\ dinheiro.n = 0 /\ pix.n = 0

\* submit_new_sale that writes before it looks at the amounts
submit_grava_primeiro(connected, raises, sh, f) ==
    LET cartao == to_float(f.cartao)
        dinheiro == to_float(f.dinheiro)
        pix == to_float(f.pix)
        r == add_data_to_sheet(connected, raises, sh, f.date, cartao, dinheiro, pix)
    IN  IF ~Truthy(f.date)
        THEN [alert |-> Alert(MsgSemData, "warning"), form |-> f, sh |-> sh]
        ELSE IF no_amount(cartao, dinheiro, pix)
        THEN [alert |-> Alert(MsgSemValor, "warning"), form |-> f, sh |-> r.sh]
        ELSE IF r.success
        THEN [alert |-> Alert(r.message, "success"),
              form |-> [f EXCEPT !.cartao = None, !.dinheiro = None, !.pix = None],
              sh |-> r.sh]
        ELSE [alert |-> Alert(r.message, "danger"), form |-> f, sh |-> r.sh]

\* submit_new_sale that returns None, None, None for the amounts whenever
\* it has called add_data_to_sheet
submit_limpa_sempre(connected, raises, sh, f) ==
    LET cartao == to_float(f.cartao)
        dinheiro == to_float(f.dinheiro)
        pix == to_float(f.pix)
        r == add_data_to_sheet(connected, raises, sh, f.date, cartao, dinheiro, pix)
        cleared == [f EXCEPT !.cartao = None, !.dinheiro = None, !.pix = None]
    IN  IF ~Truthy(f.date)
        THEN [alert |-> Alert(MsgSemData, "warning"), form |-> f, sh |-> sh]
        ELSE IF no_amount(cartao, dinheiro, pix)
        THEN [alert |-> Alert(MsgSemValor, "warning"), form |-> f, sh |-> sh]
        ELSE [alert |-> Alert(r.message, IF r.success THEN "success" ELSE "danger"),
              form |-> cleared, sh |-> r.sh]

\* [alert, form, sh]: the alert shown, the inputs afterwards (dash.no_update
\* leaves an input as it is) and the worksheet afterwards.
submit_new_sale(connected, raises, sh, f) ==
    LET cartao == to_float(f.cartao)
        dinheiro == to_float(f.dinheiro)
        pix == to_float(f.pix)
        r == add_data_to_sheet(connected, raises, sh, f.date, cartao, dinheiro, pix)
    IN  IF ~Truthy(f.date)
        THEN [alert |-> Alert(MsgSemData, "warning"), form |-> f, sh |-> sh]
        ELSE IF no_amount(cartao, dinheiro, pix)
        THEN [alert |-> Alert(MsgSemValor, "warning"), form |-> f, sh |-> sh]
        ELSE IF r.success
        THEN [alert |-> Alert(r.message, "success"),
              form |-> [f EXCEPT !.cartao = None, !.dinheiro = None, !.pix = None],
              sh |-> r.sh]
        ELSE [alert |-> Alert(r.message, "danger"), form |-> f, sh |-> r.sh]

(***************************************************************************)
(* Values the runs draw from.                                              *)
(***************************************************************************)
D_2023_12_31 == DStr("/", 31, 12, 2023)
D_2024_01_04 == DStr("/", 4, 1, 2024)
D_2024_01_10 == DStr("/", 10, 1, 2024)
D_2024_02_01 == DStr("/", 1, 2, 2024)
D_Iso        == DStr("-", 2024, 1, 7)     \* '2024-01-07': no DD/MM/YYYY string

Today == DStr("-", 2024, 1, 10)           \* DatePickerSingle's date, 'YYYY-MM-DD'

Idle == [fn |-> "none"]

NoFiltered == [data |-> NoStore, summary |-> "", registros |-> 0, faturamento |-> 0]

\* the dropdowns' initial values: this year, this month, the last 7 days
SelInit == [anos |-> {2024}, meses |-> {1}, dias |-> {7}]

FormInit == [date |-> Today, cartao |-> None, dinheiro |-> None, pix |-> None]

Forms ==
    [date : {Today, None},
     cartao : {None, Num(0), Num(0 - 500)},
     dinheiro : {None, Num(400)},
     pix : {None, Num(0)}]

Headers == {SheetCols, AmountCols, SheetCols \ {"Pix"}}

SheetRows ==
    {Row(D_2024_01_10, Num(60000), Num(40000), Num(0)),
     Row(D_2023_12_31, NumStr(0 - 500), Blank, Text),
     Row(Blank, Num(0), Num(250), Blank)}

\* a table with header h: the cells of the other columns do not exist
WithHeader(h, rows) ==
    LET Only(r) == [c \in DOMAIN r |-> IF c \in SheetCols \ h THEN Blank ELSE r[c]]
    IN  Frame(h, [i \in 1..Len(rows) |-> Only(rows[i])])

InitSheets ==
    {WithHeader(h, rows) : h \in {SheetCols, AmountCols}, rows \in SeqsUpTo(SheetRows, MaxRows - 1)}

(***************************************************************************)
(* Spec: the registration tab.  The timer reloads the store, the user      *)
(* edits the form and submits it.                                          *)
(***************************************************************************)
Init ==
    /\ sheet \in InitSheets
    /\ store = NoStore
    /\ sel = SelInit
    /\ filtered = NoFiltered
    /\ form = FormInit
    /\ message = NoAlert
    /\ arg = Idle
    /\ out = Idle

\* load_sales_data, on a tick of interval-component
LoadWith(connected, raises, fails) ==
    /\ UNCHANGED <<sheet, sel, filtered, form, message, arg, out>>
    /\ store' = load_sales_data(connected, raises, fails, sheet)

LoadSalesData == \E connected, raises, fails \in BOOLEAN : LoadWith(connected, raises, fails)

\* the user changes the date or an amount of the form
EditForm ==
    /\ \E f \in Forms : form' = f
    /\ UNCHANGED <<sheet, store, sel, filtered, message, arg, out>>

\* a submission that also reloads the store from the worksheet it wrote
SubmitWith_recarrega(connected, raises) ==
    /\ Len(sheet.rows) < MaxSheetRows
    /\ LET r == submit_new_sale(connected, raises, sheet, form)
       IN  /\ message' = r.alert
           /\ form' = r.form
           /\ sheet' = r.sh
           /\ store' = load_sales_data(connected, raises, FALSE, r.sh)
    /\ UNCHANGED <<sel, filtered, arg, out>>

\* submit_new_sale, on a click of submit-button
SubmitWith(connected, raises) ==
    /\ Len(sheet.rows) < MaxSheetRows
    /\ LET r == submit_new_sale(connected, raises, sheet, form)
       IN  /\ message' = r.alert
           /\ form' = r.form
           /\ sheet' = r.sh
    /\ UNCHANGED <<store, sel, filtered, arg, out>>

SubmitNewSale == \E connected, raises \in BOOLEAN : SubmitWith(connected, raises)

Next == LoadSalesData \/ EditForm \/ SubmitNewSale

Spec == Init /\ [][Next]_vars

(***************************************************************************)
(* SpecNorm: the normalizer.  A run starts from a table and applies        *)
(* process_data to it, directly or after read_sales_data has read it as    *)
(* the worksheet.                                                          *)
(***************************************************************************)
NormDates == {D_2024_01_10, D_Iso, Blank, Ts(DaysFromCivil(2023, 12, 31)), NaT}

NormAmounts ==
    {<<Num(60000), Num(40000), Num(0)>>,
     <<NumStr(0 - 500), Blank, Text>>,
     <<Num(199), NaN, NumStr(1)>>,
     <<Text, Blank, Num(250)>>}

NormRows == {Row(d, a[1], a[2], a[3]) : d \in NormDates, a \in NormAmounts}

NormTables == {WithHeader(h, rows) : h \in Headers, rows \in SeqsUpTo(NormRows, MaxRows)}

HarnessInit ==
    /\ sheet = Frame(SheetCols, <<>>)
    /\ store = NoStore
    /\ sel = SelInit
    /\ filtered = NoFiltered
    /\ form = FormInit
    /\ message = NoAlert
    /\ out = Idle

InitNorm ==
    /\ HarnessInit
    /\ \E df \in NormTables : arg = [fn |-> "normalize", df |-> df]

\* process_data(df)
CallProcessData ==
    /\ out = Idle
    /\ out' = [fn |-> "process_data", df |-> process_data(arg.df)]
    /\ UNCHANGED <<sheet, store, sel, filtered, form, message, arg>>

\* a worksheet holds numbers and strings
IsWorksheet(df) ==
    \A i \in 1..Len(df.rows) : \A c \in SheetCols :
        df.rows[i][c].k \in {"num", "numstr", "text", "blank", "str"}

\* process_data(read_sales_data()), the worksheet holding the table
CallReadAndProcess ==
    /\ out = Idle
    /\ IsWorksheet(arg.df)
    /\ \E connected, raises \in BOOLEAN :
           out' = [fn |-> "read_sales_data", connected |-> connected, raises |-> raises,
                   df |-> process_data(read_sales_data(connected, raises, arg.df))]
    /\ UNCHANGED <<sheet, store, sel, filtered, form, message, arg>>

NextNorm == CallProcessData \/ CallReadAndProcess

SpecNorm == InitNorm /\ [][NextNorm]_vars

(***************************************************************************)
(* SpecFilter: the filters.  A run starts from a worksheet and a selection *)
(* of the three dropdowns; the timer loads the store, and apply_filters or *)
(* one of the filters is applied to the table of the store.                *)
(***************************************************************************)
FilterRows ==
    {Row(D_2023_12_31, Num(1000), Num(0), Num(0)),
     Row(D_2024_01_04, Num(0), Num(2000), Num(0)),
     Row(D_2024_01_10, Num(0), Num(0), Num(4000)),
     Row(D_2024_02_01, Num(8000), Num(0), Num(0)),
     Row(D_Iso, Num(16000), Num(0), Num(0))}

\* ten daily records, 01/01/2024 .. 10/01/2024
TenDays == Frame(SheetCols, [i \in 1..10 |-> Row(DStr("/", i, 1, 2024), Num(100 * i), Num(0), Num(0))])

FilterSheets ==
    {Frame(SheetCols, rows) : rows \in SeqsUpTo(FilterRows, MaxRows + 1)}
    \cup {WithHeader(AmountCols, rows) : rows \in SeqsUpTo(FilterRows, 1)}
    \cup {TenDays}

Selections ==
    [anos : {{}, {2023}, {2024}},
     meses : {{}, {1}, {1, 12}},
     dias : {{}, {1}, {7}, {3, 7}}]

InitFilter ==
    /\ sheet \in FilterSheets
    /\ store = NoStore
    /\ sel \in Selections
    /\ filtered = NoFiltered
    /\ form = FormInit
    /\ message = NoAlert
    /\ arg = Idle
    /\ out = Idle

\* the table the callbacks read back from store-sales-data
StoreFrame ==
    LET df == read_json(store)
        ToDate(r) == [r EXCEPT !.Data = to_datetime_iso(r.Data)]
    IN  Frame(df.cols, [i \in 1..Len(df.rows) |-> ToDate(df.rows[i])])

\* the rows apply_filters reads from the store a successful load of sh fills
StoreFrameOf(sh) ==
    LET ToDate(r) == [r EXCEPT !.Data = to_datetime_iso(r.Data)]
        loaded == load_sales_data(TRUE, FALSE, FALSE, sh).rows
    IN  [i \in 1..Len(loaded) |-> ToDate(loaded[i])]

\* apply_filters, on a change of the store or of a dropdown
ApplyFilters ==
    /\ filtered = NoFiltered /\ out = Idle
    /\ filtered' = apply_filters(store, sel.anos, sel.meses, sel.dias)
    /\ UNCHANGED <<sheet, store, sel, form, message, arg, out>>

\* filter_by_rolling_days(df, dias)
CallRollingDays ==
    /\ filtered = NoFiltered /\ out = Idle
    /\ ~store.none
    /\ "Data" \in StoreFrame.cols      \* df['Data'] of line 742 has not raised
    /\ out' = [fn |-> "filter_by_rolling_days", df |-> StoreFrame,
               res |-> filter_by_rolling_days(StoreFrame, sel.dias)]
    /\ UNCHANGED <<sheet, store, sel, filtered, form, message, arg>>

\* the year filter and the month filter, in both orders
CallYearMonth ==
    /\ filtered = NoFiltered /\ out = Idle
    /\ ~store.none
    /\ out' = [fn |-> "year_month", df |-> StoreFrame,
               ym |-> filter_by_meses(filter_by_anos(StoreFrame, sel.anos), sel.meses),
               my |-> filter_by_anos(filter_by_meses(StoreFrame, sel.meses), sel.anos)]
    /\ UNCHANGED <<sheet, store, sel, filtered, form, message, arg>>

LoadForFilter == filtered = NoFiltered /\ out = Idle /\ LoadSalesData

NextFilter == LoadForFilter \/ ApplyFilters \/ CallRollingDays \/ CallYearMonth

SpecFilter == InitFilter /\ [][NextFilter]_vars

(***************************************************************************)
(* SpecFin: calculate_financial_results, applied to the table of a         *)
(* filtered store and three parameters.                                    *)
(***************************************************************************)
FinRows ==
    {Row(D_2024_01_10, Num(60000), Num(40000), Num(0)),
     Row(D_2024_01_10, Num(30000), Num(0), Num(30000)),
     Row(D_2024_01_04, Num(0), Num(40000), Num(0)),
     Row(D_2024_01_04, Num(0), Num(0), Num(0)),
     Row(D_2024_01_04, Num(0 - 50000), Num(0), Num(0))}

FinSheets == {Frame(SheetCols, rows) : rows \in SeqsUpTo(FinRows, MaxRows)}

\* the table update_contabil_results reads back from store-filtered-data
FinTable(sh) ==
    read_json(apply_filters(load_sales_data(TRUE, FALSE, FALSE, sh), {}, {}, {}).data)

\* what the user has typed into salario-input, contadora-input and
\* fornecedores-input: nothing, 0 or an amount
FinInputs ==
    [salario : {None, Num(0), Num(100000)},
     contadora : {None, Num(0), Num(20000)},
     fornecedores : {None, Num(0), Num(125)}]

FinArgs ==
    {[fn |-> "calculate", df |-> FinTable(sh), salario |-> p[1], contadora |-> p[2],
      percentual |-> p[3]] :
         sh \in FinSheets, p \in {155000, 100000, 0} \X {31600, 0} \X {300, 125, 0}}

InitFin ==
    /\ HarnessInit
    /\ arg \in FinArgs

\* calculate_financial_results(df, salario, contadora, percentual)
CallCalculate ==
    /\ out = Idle
    /\ out' = [fn |-> "calculate_financial_results",
               res |-> calculate_financial_results(arg.df, arg.salario, arg.contadora,
                                                   arg.percentual)]
    /\ UNCHANGED <<sheet, store, sel, filtered, form, message, arg>>

\* update_contabil_results, on a change of the filtered store or of an input
CallUpdateContabil ==
    /\ out = Idle
    /\ \E in \in FinInputs, loaded \in BOOLEAN :
           LET filtered_data == IF loaded THEN to_json(arg.df) ELSE NoStore
               r == update_contabil_results(filtered_data, in.salario, in.contadora,
                                            in.fornecedores)
           IN  out' = [fn |-> "update_contabil_results", loaded |-> loaded, in |-> in,
                       view |-> r.view, res |-> r.results]
    /\ UNCHANGED <<sheet, store, sel, filtered, form, message, arg>>

NextFin == CallCalculate \/ CallUpdateContabil

SpecFin == InitFin /\ [][NextFin]_vars

(***************************************************************************)
(* SpecWeek: analyze_sales_by_weekday, applied to a table of records with  *)
(* a weekday and a Total.                                                  *)
(***************************************************************************)
WeekRows ==
    {[Row(Ts(DaysFromCivil(2024, 1, 10)), (IF t = NaN THEN Num(0) ELSE t), Num(0), Num(0))
          EXCEPT !.Total = t, !.DiaSemana = d, !.Ano = 2024, !.Mes = 1] :
         t \in {Num(0), Num(200), Num(300), NaN}, d \in {0, 2, NoDay}}

WeekTables ==
    {Frame(cols, rows) :
         cols \in {SheetCols \cup {"Total"} \cup DateCols, SheetCols \cup {"Total"}},
         rows \in SeqsUpTo(WeekRows, MaxRows + 1)}

InitWeek ==
    /\ HarnessInit
    /\ arg \in {[fn |-> "analyze", df |-> df, dias |-> {7}] : df \in WeekTables}

\* analyze_sales_by_weekday(df)
CallAnalyze ==
    /\ out = Idle
    /\ out' = [fn |-> "analyze_sales_by_weekday", res |-> analyze_sales_by_weekday(arg.df)]
    /\ UNCHANGED <<sheet, store, sel, filtered, form, message, arg>>

\* every aggregation of the filtered table the tabs show, on one table
CallAggregations ==
    /\ out = Idle
    /\ out' = [fn       |-> "aggregations",
               daily     |-> create_daily_sales_chart(arg.df),
               weekday   |-> analyze_sales_by_weekday(arg.df),
               payment   |-> create_payment_method_chart(arg.df),
               weekly    |-> create_weekly_pattern_chart(arg.df),
               accum     |-> create_accumulation_chart(arg.df),
               evolution |-> create_payment_evolution_chart(arg.df),
               histogram |-> create_sales_histogram(arg.df),
               rolling   |-> filter_by_rolling_days(arg.df, arg.dias)]
    /\ UNCHANGED <<sheet, store, sel, filtered, form, message, arg>>

NextWeek == CallAnalyze \/ CallAggregations

SpecWeek == InitWeek /\ [][NextWeek]_vars

(***************************************************************************)
(* Properties                                                              *)
(***************************************************************************)
Called(fn) == out.fn = fn

IsAmount(c) == c.k = "num"

\* C1: in every record of the table process_data returns, for any input
\* table, Total is a number and equals Cartao + Dinheiro + Pix of that
\* record, each of them a number after the coercion.
C1_TotalIsSum ==
    (Called("process_data") \/ Called("read_sales_data")) =>
        \A i \in 1..Len(out.df.rows) :
            LET r == out.df.rows[i]
            IN  /\ IsAmount(r.Cartao) /\ IsAmount(r.Dinheiro) /\ IsAmount(r.Pix)
                /\ IsAmount(r.Total)
                /\ r.Total.n = r.Cartao.n + r.Dinheiro.n + r.Pix.n

\* process_data has returned a record with a Pix amount and a Total that
\* differs from each of its three amounts
C1_Witness ==
    /\ Called("process_data")
    /\ \E i \in 1..Len(out.df.rows) :
           LET r == out.df.rows[i]
           IN  r.Pix.n # 0 /\ r.Cartao.n # 0 /\ r.Total.n = r.Cartao.n + r.Dinheiro.n + r.Pix.n

\* C2: every record the normalizer returns (process_data alone, or after
\* read_sales_data) has a valid date: the table has the Data column and no
\* record's date is null, whatever the input table.
C2_NoRecordWithoutDate ==
    (Called("process_data") \/ Called("read_sales_data")) =>
        \A i \in 1..Len(out.df.rows) :
            "Data" \in out.df.cols /\ out.df.rows[i].Data.k = "ts"

\* C3: for a non-empty table S and a non-empty list D,
\* filter_by_rolling_days returns exactly the records of S with
\* date >= max(date in S) - (max(D) - 1) days, in the order of S; of D only
\* the maximum counts; ten daily records 2024-01-01 .. 2024-01-10 with
\* D = [7] give the seven records 2024-01-04 .. 2024-01-10.
C3_RollingWindow ==
    (/\ Called("filter_by_rolling_days")
     /\ out.df.rows # <<>> /\ sel.dias # {}) =>
        LET S == out.df.rows
            latest == Max({S[i].Data.n : i \in 1..Len(S)})
            InWindow(r) == r.Data.n >= latest - (Max(sel.dias) - 1)
        IN  /\ out.res.rows = SelectSeq(S, InWindow)
            /\ out.res.cols = out.df.cols
            /\ out.res = filter_by_rolling_days(out.df, {Max(sel.dias)})
            /\ (Len(S) = 10 /\ sel.dias = {7} /\ S = StoreFrameOf(TenDays)) =>
                   [i \in 1..Len(out.res.rows) |-> CivilFromDays(out.res.rows[i].Data.n)]
                       = [i \in 1..7 |-> [y |-> 2024, m |-> 1, d |-> i + 3]]

\* the ten daily records have been filtered with D = [7], seven are left
C3_Witness ==
    /\ Called("filter_by_rolling_days")
    /\ Len(out.df.rows) = 10 /\ sel.dias = {7}
    /\ Len(out.res.rows) = 7

\* what apply_filters has returned, read back as apply_filters reads a store
Applied == filtered # NoFiltered

Returned ==
    LET ToDate(r) == [r EXCEPT !.Data = to_datetime_iso(r.Data)]
    IN  IF filtered.data.none THEN <<>> ELSE [i \in 1..Len(filtered.data.rows) |-> ToDate(filtered.data.rows[i])]

YearOk(r)  == sel.anos = {} \/ r.Ano \in sel.anos
MonthOk(r) == sel.meses = {} \/ r.Mes \in sel.meses
YearMonthOk(r) == YearOk(r) /\ MonthOk(r)

\* the records that satisfy every criterion selected, the window being
\* anchored at the latest date the year and month filters leave
Matching(S) ==
    LET YM == SelectSeq(S, YearMonthOk)
        latest == Max({YM[i].Data.n : i \in 1..Len(YM)})
        InWindow(r) == sel.dias = {} \/ r.Data.n >= latest - (Max(sel.dias) - 1)
    IN  SelectSeq(YM, InWindow)

\* C4: apply_filters returns exactly the records of the store that satisfy
\* every criterion selected (year AND month AND rolling window); an empty
\* criterion removes no record.
C4_ApplyFiltersExact ==
    (Applied /\ ~store.none) => Returned = Matching(StoreFrame.rows)

\* C4, on the stores whose table has the Data column: the statement holds.
C4_OnDatedStores ==
    (Applied /\ ~store.none /\ "Data" \in store.cols) => Returned = Matching(StoreFrame.rows)

\* C5: the year filter and the month filter give the same table in either
\* order, and on records that carry a year and a month that table holds
\* exactly the records whose year is selected AND whose month is selected.
C5_YearMonthCommute ==
    Called("year_month") =>
        /\ out.ym = out.my
        /\ ({"Ano", "Mes"} \subseteq out.df.cols) =>
               out.ym.rows = SelectSeq(out.df.rows, YearMonthOk)

\* of three records the year filter alone and the month filter alone each
\* drop one, and one is left after both
C5_Witness ==
    /\ Called("year_month")
    /\ sel.anos # {} /\ sel.meses # {}
    /\ Len(out.df.rows) = 3
    /\ Len(filter_by_anos(out.df, sel.anos).rows) = 2
    /\ Len(filter_by_meses(out.df, sel.meses).rows) = 2
    /\ Len(out.ym.rows) = 1

(***************************************************************************)
(* The financial result.  Reais(r, c) is the amount r reais and c centavos *)
(* in Milli-centavos.                                                      *)
(***************************************************************************)
Reais(r, c) == Mc(100 * r + c)

Calculated == Called("calculate_financial_results")

\* C6: for a non-empty table the tax is 6 % of (card sum + pix sum), the
\* labor cost is the wage x 1.55, the supplier cost is the gross revenue x
\* percent / 100, total_costs is the sum of tax, labor, accountant fee and
\* supplier cost, gross_profit is gross revenue - total_costs and net_profit
\* is gross revenue - taxable revenue, the gross revenue being the sum of
\* Total.
C6_Formulas ==
    (Calculated /\ arg.df.rows # <<>>) =>
        LET res == out.res
            card == SumCol(arg.df, "Cartao")
            pix == SumCol(arg.df, "Pix")
            total == SumCol(arg.df, "Total")
        IN  /\ res.faturamento_bruto = Mc(total)
            /\ res.faturamento_tributavel = Mc(card + pix)
            /\ res.imposto_simples * 50 = 3 * Mc(card + pix)
            /\ res.custo_funcionario * 2 = 31 * arg.salario * 100
            /\ res.custo_fornecedores_valor = total * arg.percentual
            /\ res.total_custos = res.imposto_simples + res.custo_funcionario
                                  + Mc(arg.contadora) + res.custo_fornecedores_valor
            /\ res.lucro_bruto = res.faturamento_bruto - res.total_custos
            /\ res.lucro_liquido = res.faturamento_bruto - res.faturamento_tributavel

\* a result has been computed from records with card, cash and pix revenue
C6_Witness ==
    /\ Calculated /\ Len(arg.df.rows) = 2
    /\ out.res.imposto_simples > 0
    /\ out.res.faturamento_nao_tributavel > 0
    /\ SumCol(arg.df, "Pix") > 0
    /\ arg.salario > 0 /\ arg.contadora > 0 /\ arg.percentual > 0

\* gross revenue 1000, taxable revenue 600, cash 400; wage 1550, accountant
\* fee 316, supplier percent 30
Example7 ==
    /\ Calculated
    /\ SumCol(arg.df, "Total") = 100000
    /\ SumCol(arg.df, "Cartao") + SumCol(arg.df, "Pix") = 60000
    /\ SumCol(arg.df, "Dinheiro") = 40000
    /\ arg.salario = 155000 /\ arg.contadora = 31600 /\ arg.percentual = 300

\* C7, as stated: the example yields tax 36.00, labor 2402.50, supplier
\* cost 300.00, total_costs 3038.50, gross_profit -2038.50, net_profit 400.00.
C7_AsStated ==
    Example7 =>
        /\ out.res.imposto_simples = Reais(36, 0)
        /\ out.res.custo_funcionario = Reais(2402, 50)
        /\ out.res.custo_fornecedores_valor = Reais(300, 0)
        /\ out.res.total_custos = Reais(3038, 50)
        /\ out.res.lucro_bruto = 0 - Reais(2038, 50)
        /\ out.res.lucro_liquido = Reais(400, 0)

\* C7, amended: the example yields tax 36.00, labor 2402.50, supplier cost
\* 300.00, total_costs 3054.50 (36.00 + 2402.50 + 316.00 + 300.00),
\* gross_profit -2054.50, net_profit 400.00.
C7_Example ==
    Example7 =>
        /\ out.res.imposto_simples = Reais(36, 0)
        /\ out.res.custo_funcionario = Reais(2402, 50)
        /\ out.res.custo_fornecedores_valor = Reais(300, 0)
        /\ out.res.total_custos = Reais(3054, 50)
        /\ out.res.lucro_bruto = 0 - Reais(2054, 50)
        /\ out.res.lucro_liquido = Reais(400, 0)

\* the example has been computed, from one record of card 600 and cash 400
C7_Witness ==
    /\ Example7
    /\ Len(arg.df.rows) = 1
    /\ out.res.faturamento_bruto = Reais(1000, 0)

\* (p / r) * 100 for r # 0
Ratio100(p, r) == IF r < 0 THEN Percent(0 - p, 0 - r) ELSE Percent(p, r)

\* C8: gross_margin = gross_profit / gross_revenue * 100 and
\* net_margin = net_profit / gross_revenue * 100, and both are 0 when
\* gross_revenue is 0.
C8_AsStated ==
    Calculated =>
        LET res == out.res
        IN  IF res.faturamento_bruto = 0
            THEN res.margem_lucro_bruto = Zero /\ res.margem_lucro_liquido = Zero
            ELSE /\ res.margem_lucro_bruto = Ratio100(res.lucro_bruto, res.faturamento_bruto)
                 /\ res.margem_lucro_liquido = Ratio100(res.lucro_liquido, res.faturamento_bruto)

\* C8 where no amount is negative, the gross revenue then being >= 0: the
\* margins are as stated.
C8_OnNonNegativeAmounts ==
    (Calculated /\ \A i \in 1..Len(arg.df.rows) : \A c \in AmountCols : arg.df.rows[i][c].n >= 0)
        => C8_AsStated

\* C9: for an empty table every monetary field (revenues, tax, labor cost,
\* supplier cost, total_costs, profits) is 0 and both margins are 0, while
\* custo_contadora is the accountant fee that was passed in.
C9_EmptyTable ==
    (Calculated /\ arg.df.rows = <<>>) =>
        LET res == out.res
        IN  /\ res.faturamento_bruto = 0 /\ res.faturamento_tributavel = 0
            /\ res.faturamento_nao_tributavel = 0 /\ res.imposto_simples = 0
            /\ res.custo_funcionario = 0 /\ res.custo_fornecedores_valor = 0
            /\ res.total_custos = 0 /\ res.lucro_bruto = 0 /\ res.lucro_liquido = 0
            /\ res.margem_lucro_bruto = Zero /\ res.margem_lucro_liquido = Zero
            /\ res.custo_contadora = Mc(arg.contadora)

\* the result of an empty table with a wage and an accountant fee
C9_Witness ==
    /\ Calculated /\ arg.df.rows = <<>>
    /\ arg.salario > 0 /\ arg.contadora > 0
    /\ out.res.custo_contadora = Reais(316, 0)

(***************************************************************************)
(* Submission                                                              *)
(***************************************************************************)
NoDate(f) == ~Truthy(f.date)
NoAmount(f) == ~Truthy(f.cartao) /\ ~Truthy(f.dinheiro) /\ ~Truthy(f.pix)

\* C10: a submission with no date, or with all three amounts zero or
\* blank, leaves the worksheet as it is, whatever the connection, and shows
\* a warning: "select a date" when the date is missing, "enter a value"
\* when there is a date and no amount; the two texts differ.
C10_RejectedBeforeWrite ==
    [][(SubmitNewSale /\ (NoDate(form) \/ NoAmount(form))) =>
          /\ sheet' = sheet
          /\ message'.color = "warning"
          /\ NoDate(form) => message'.text = MsgSemData
          /\ (~NoDate(form) /\ NoAmount(form)) => message'.text = MsgSemValor
          /\ MsgSemData # MsgSemValor]_vars

\* a form with a date and amounts 0, blank, blank has been rejected
C10_Witness ==
    /\ message = Alert(MsgSemValor, "warning")
    /\ ~NoDate(form) /\ NoAmount(form)
    /\ form.cartao = Num(0) /\ form.dinheiro = None

\* no amount of the form is strictly greater than 0
NoPositive(f) ==
    \A a \in {f.cartao, f.dinheiro, f.pix} : ~(Truthy(a) /\ a.n > 0)

\* C11: every row submit_new_sale appends has a card, cash or pix amount
\* strictly greater than 0: a submission in which no amount is > 0, one
\* whose only non-zero amounts are negative included, appends nothing.
C11_AppendedHasPositiveAmount ==
    [][(SubmitNewSale /\ NoPositive(form)) => sheet' = sheet]_vars

\* a submit step in which add_data_to_sheet has succeeded
Succeeded == SubmitNewSale /\ message' = Alert(MsgSucesso, "success")

\* C12: a successful add_data_to_sheet appends exactly one row, [date as
\* DD/MM/YYYY, card, cash, pix] in the worksheet's column order, at the end
\* of the worksheet and leaves the rows that were there as they were; the
\* date written is the submitted YYYY-MM-DD date re-formatted, and the
\* DD/MM/YYYY parse of the normalizer reads the same calendar date from it.
C12_AppendsOneRow ==
    [][Succeeded =>
          LET n == Len(sheet.rows)
              h == HeaderOf(sheet.cols)
              last == sheet'.rows[n + 1]
              new_row == <<DStr("/", form.date.f[3], form.date.f[2], form.date.f[1]),
                           to_float(form.cartao), to_float(form.dinheiro), to_float(form.pix)>>
          IN  /\ Len(sheet'.rows) = n + 1
              /\ SubSeq(sheet'.rows, 1, n) = sheet.rows
              /\ sheet'.cols = sheet.cols
              /\ \A i \in 1..Len(h) : last[h[i]] = new_row[i]
              /\ "Data" \in sheet.cols =>
                   to_datetime_strict(last.Data)
                     = Ts(DaysFromCivil(form.date.f[1], form.date.f[2], form.date.f[3]))]_vars

\* a sale of 400 in cash has been appended after the row that was there
C12_Witness ==
    /\ message = Alert(MsgSucesso, "success")
    /\ sheet.cols = SheetCols /\ Len(sheet.rows) = 2
    /\ sheet.rows[1] \in SheetRows
    /\ sheet.rows[2] = Row(D_2024_01_10, Num(0 - 500), Num(400), Num(0))

(***************************************************************************)
(* Amount coercion                                                         *)
(***************************************************************************)
Normalized == Called("process_data") \/ Called("read_sales_data")

\* the normalizer has dropped no record: record i of the result is record
\* i of the input
AllKept == Normalized /\ Len(out.df.rows) = Len(arg.df.rows) /\ arg.df.rows # <<>>

\* C13: in the normalizer a monetary column that is missing is all zeros
\* in the result and an amount that is the empty string or non-numeric
\* becomes 0 (an amount that is a number stays the number it is); every
\* amount of the result is a number, the normalization having returned.
C13_AmountsCoerced ==
    Normalized =>
        /\ \A i \in 1..Len(out.df.rows) : \A c \in AmountCols :
               /\ out.df.rows[i][c].k = "num"
               /\ c \notin arg.df.cols => out.df.rows[i][c].n = 0
        /\ AmountCols \subseteq out.df.cols
        /\ AllKept =>
               \A i \in 1..Len(out.df.rows) : \A c \in AmountCols \cap arg.df.cols :
                   /\ arg.df.rows[i][c].k \in {"blank", "text", "nan"} => out.df.rows[i][c].n = 0
                   /\ arg.df.rows[i][c].k = "num" => out.df.rows[i][c] = arg.df.rows[i][c]

\* a record with a non-numeric and a blank amount and without the Pix
\* column has been normalized by read_sales_data and process_data
C13_Witness ==
    /\ Called("read_sales_data") /\ AllKept
    /\ "Pix" \notin arg.df.cols
    /\ arg.df.rows[1].Cartao = Text /\ arg.df.rows[1].Dinheiro = Blank
    /\ out.df.rows[1].Cartao = Num(0) /\ out.df.rows[1].Dinheiro = Num(0)
    /\ out.df.rows[1].Pix = Num(0)

\* C14: an amount that is a string spelling a negative number, such as
\* "-5", is 0 in the record the normalizer returns.
C14_NegativeStringIsZero ==
    AllKept =>
        \A i \in 1..Len(out.df.rows) : \A c \in AmountCols \cap arg.df.cols :
            (arg.df.rows[i][c].k = "numstr" /\ arg.df.rows[i][c].n < 0) => out.df.rows[i][c] = Num(0)

(***************************************************************************)
(* The day-first fallback of read_sales_data                               *)
(***************************************************************************)
\* the dates of a table's records, in order
DatesOf(rows) == [i \in 1..Len(rows) |-> rows[i].Data]

\* read_sales_data has read a worksheet with a Data column in which the
\* strict DD/MM/YYYY parse finds no valid date
NoStrictDate ==
    /\ Called("read_sales_data") /\ out.connected /\ ~out.raises
    /\ "Data" \in arg.df.cols /\ arg.df.rows # <<>>
    /\ \A i \in 1..Len(arg.df.rows) : to_datetime_strict(arg.df.rows[i].Data) = NaT

\* C15: when the strict DD/MM/YYYY parse yields no valid date for any row,
\* read_sales_data parses the rows' original date values again, day first:
\* a row whose original date is valid day first is kept, with that date.
C15_DayFirstFallback ==
    NoStrictDate =>
        LET IsTs(c) == c.k = "ts"
            parsed == [i \in 1..Len(arg.df.rows) |-> to_datetime_dayfirst(arg.df.rows[i].Data)]
        IN  DatesOf(out.df.rows) = SelectSeq(parsed, IsTs)

(***************************************************************************)
(* The parameters of update_contabil_results                               *)
(***************************************************************************)
\* update_contabil_results has computed a result from a non-empty table
Rendered ==
    /\ Called("update_contabil_results")
    /\ out.loaded /\ arg.df.rows # <<>>

\* the value a parameter stands for: the default when it is absent
OrDefault(c, default) == IF c = None THEN default ELSE c.n

\* C16: when a financial parameter is null or absent the result is computed
\* with the default 1550, 316 or 30 in its place, and with the value given
\* when there is one, for every combination of absent and given
\* parameters; a result is rendered, no error message.
C16_DefaultsWhenAbsent ==
    (Rendered /\ Num(0) \notin {out.in.salario, out.in.contadora, out.in.fornecedores}) =>
        LET salario == OrDefault(out.in.salario, 155000)
            contadora == OrDefault(out.in.contadora, 31600)
            fornecedores == OrDefault(out.in.fornecedores, 300)
        IN  /\ out.view = "Demonstrativo de Resultados"
            /\ out.res.custo_funcionario * 2 = 31 * salario * 100
            /\ out.res.custo_contadora = Mc(contadora)
            /\ out.res.custo_fornecedores_valor = SumCol(arg.df, "Total") * fornecedores
            /\ out.res = calculate_financial_results(arg.df, salario, contadora, fornecedores)

\* a result has been computed with no wage, no fee and a supplier percent
\* of 12.5 given: labor cost 2402.50, accountant fee 316.00
C16_Witness ==
    /\ Rendered
    /\ out.in.salario = None /\ out.in.contadora = None /\ out.in.fornecedores = Num(125)
    /\ out.res.custo_funcionario = Reais(2402, 50)
    /\ out.res.custo_contadora = Reais(316, 0)
    /\ out.res.faturamento_bruto > 0

(***************************************************************************)
(* The spreadsheet out of reach                                            *)
(***************************************************************************)
\* a form submit_new_sale passes on to add_data_to_sheet
Accepted(f) == ~NoDate(f) /\ ~NoAmount(f)

\* a submit step taken while the spreadsheet cannot be reached
SubmitUnreachable == \E raises \in BOOLEAN : SubmitWith(FALSE, raises)

\* C17: when the spreadsheet cannot be reached add_data_to_sheet appends
\* nothing and returns a failure with a message, after the one attempt to
\* get the worksheet, and submit_new_sale shows that message as an error
\* alert (and leaves the inputs as they are).
C17_UnreachableAborts ==
    [][(SubmitUnreachable /\ Accepted(form)) =>
          LET r == add_data_to_sheet(FALSE, FALSE, sheet, form.date, to_float(form.cartao),
                                     to_float(form.dinheiro), to_float(form.pix))
          IN  /\ sheet' = sheet
              /\ ~r.success /\ r.message = MsgConexao /\ r.sh = sheet
              /\ message' = Alert(r.message, "danger")
              /\ form' = form]_vars

\* a sale of 400 in cash has been turned away with the connection error
C17_Witness ==
    /\ message = Alert(MsgConexao, "danger")
    /\ form.date = Today /\ form.dinheiro = Num(400)
    /\ Len(sheet.rows) = 1

(***************************************************************************)
(* The timer tick                                                          *)
(***************************************************************************)
\* a tick at which the worksheet is read without an error
TickReadable == LoadWith(TRUE, FALSE, FALSE)

\* the number an amount cell of the worksheet stands for
AmountOf(c) == IF c.k \in {"num", "numstr"} THEN c.n ELSE 0

\* the rows of the worksheet that the normalizer keeps
KeptRows ==
    LET HasDate(r) == to_datetime_strict(r.Data) # NaT
    IN  IF "Data" \in sheet.cols THEN SelectSeq(sheet.rows, HasDate) ELSE sheet.rows

\* record r of the store is the worksheet row w, normalized
IsNormalized(r, w) ==
    /\ \A c \in AmountCols : r[c] = Num(IF c \in sheet.cols THEN AmountOf(w[c]) ELSE 0)
    /\ r.Total.n = r.Cartao.n + r.Dinheiro.n + r.Pix.n
    /\ "Data" \in sheet.cols => r.Data = iso_format(to_datetime_strict(w.Data))

\* C18: every timer tick replaces the sales store by the normalization of
\* the whole worksheet as it is then, whatever the store held before;
\* hence, the worksheet being readable, a tick after a successful append
\* yields a store that holds the appended row.
C18_TickReloadsStore ==
    [][TickReadable =>
          LET kept == KeptRows
          IN
          /\ ~store'.none
          /\ Len(store'.rows) = Len(kept)
          /\ \A i \in 1..Len(kept) : IsNormalized(store'.rows[i], kept[i])
          /\ message = Alert(MsgSucesso, "success") =>
                 /\ store'.rows # <<>>
                 /\ IsNormalized(store'.rows[Len(store'.rows)], sheet.rows[Len(sheet.rows)])]_vars

\* the tick after the append of a sale of 400 in cash: the store holds it
\* after the row it held before
C18_Witness ==
    /\ message = Alert(MsgSucesso, "success")
    /\ "Data" \in sheet.cols /\ Len(sheet.rows) = 2
    /\ ~store.none /\ Len(store.rows) = 2
    /\ store.rows[2].Data = DStr("-", 2024, 1, 10)
    /\ store.rows[2].Dinheiro = Num(400) /\ store.rows[2].Total.n = 400 + store.rows[2].Cartao.n

\* a tick at which the spreadsheet cannot be reached or the read raises
TickReadFails == \E connected, raises \in BOOLEAN : (~connected \/ raises) /\ LoadWith(connected, raises, FALSE)

\* a tick at which load_sales_data itself catches an exception
TickFails == \E connected, raises \in BOOLEAN : LoadWith(connected, raises, TRUE)

\* C19: when the read of the spreadsheet fails (no connection, or an error
\* while reading) read_sales_data returns an empty table and
\* load_sales_data stores the empty normalized table in place of what was
\* loaded before; no exception leaves the callback: when it catches one
\* itself it stores an empty table too.
C19_FailedReadLoadsEmpty ==
    [][/\ TickReadFails =>
             /\ \A connected, raises \in BOOLEAN :
                    (~connected \/ raises) =>
                        /\ read_sales_data(connected, raises, sheet).rows = <<>>
                        /\ read_sales_data(connected, raises, sheet).cols = SheetCols
             /\ ~store'.none /\ store'.rows = <<>>
             /\ store'.cols = SheetCols \cup {"Total", "Ano", "Mes", "MesNome", "DiaSemana"}
       /\ TickFails => ~store'.none /\ store'.rows = <<>>]_vars

\* the store holds the empty normalized table while the worksheet holds a
\* row with a valid date: the last read has failed
C19_Witness ==
    /\ ~store.none /\ store.rows = <<>> /\ "Total" \in store.cols
    /\ "Data" \in sheet.cols /\ sheet.rows # <<>>
    /\ to_datetime_strict(sheet.rows[1].Data) # NaT

(***************************************************************************)
(* The best weekday                                                        *)
(***************************************************************************)
Analyzed == Called("analyze_sales_by_weekday")

\* the records of the table given that have a weekday and a Total
WithDayAndTotal ==
    IF {"DiaSemana", "Total"} \subseteq arg.df.cols
    THEN {i \in 1..Len(arg.df.rows) :
              arg.df.rows[i].DiaSemana # NoDay /\ arg.df.rows[i].Total.k = "num"}
    ELSE {}

\* the sum and the number of the Totals of weekday d
SumOn(d) ==
    SumSeq([i \in 1..Len(arg.df.rows) |->
               IF i \in WithDayAndTotal /\ arg.df.rows[i].DiaSemana = d
               THEN arg.df.rows[i].Total.n ELSE 0])

CountOn(d) == Cardinality({i \in WithDayAndTotal : arg.df.rows[i].DiaSemana = d})

\* C20: the best weekday analyze_sales_by_weekday returns is a weekday with
\* a record, whose mean Total is the greatest among the weekdays that have a
\* record; it returns None when no record has both a weekday and a Total.
C20_BestWeekdayHasMaxMean ==
    Analyzed =>
        IF WithDayAndTotal = {}
        THEN ~out.res.found
        ELSE /\ out.res.found
             /\ CountOn(out.res.best_day) > 0
             /\ \A d \in 0..6 :
                    CountOn(d) > 0 =>
                        SumOn(d) * CountOn(out.res.best_day)
                            <= SumOn(out.res.best_day) * CountOn(d)

\* Wednesday, with one record of 300, is best against Monday with a mean of
\* 200 over two records, whose sum is greater
C20_Witness ==
    /\ Analyzed /\ out.res.found /\ out.res.best_day = 2
    /\ CountOn(0) = 2 /\ SumOn(0) = 400
    /\ CountOn(2) = 1 /\ SumOn(2) = 300

\* the weekdays with a record whose mean Total is the greatest
MaxDays ==
    {d \in 0..6 :
        /\ CountOn(d) > 0
        /\ \A e \in 0..6 : CountOn(e) > 0 => SumOn(e) * CountOn(d) <= SumOn(d) * CountOn(e)}

\* the tables that hold the records of arg.df in another order
Reordered ==
    LET n == Len(arg.df.rows)
        perms == {p \in [1..n -> 1..n] : \A a, b \in 1..n : p[a] = p[b] => a = b}
    IN  {Frame(arg.df.cols, [i \in 1..n |-> arg.df.rows[p[i]]]) : p \in perms}

\* C21: when two or more weekdays share the greatest mean Total,
\* analyze_sales_by_weekday returns the one that comes first in the order
\* Monday .. Sunday, in whatever order the records are given: the result is
\* a function of the set of records.
C21_FirstMaxTieBreak ==
    Analyzed =>
        /\ out.res.found => (out.res.best_day \in MaxDays /\ \A d \in MaxDays : out.res.best_day <= d)
        /\ \A df \in Reordered : analyze_sales_by_weekday(df) = out.res

\* Monday and Wednesday tie with a mean of 300, the Wednesday record is
\* given first, Monday is returned
C21_Witness ==
    /\ Analyzed /\ MaxDays = {0, 2}
    /\ arg.df.rows[1].DiaSemana = 2 /\ arg.df.rows[1].Total = Num(300)
    /\ out.res.found /\ out.res.best_day = 0


Aggregated == Called("aggregations")

\* C22: given a table without records, every aggregation returns its
\* no-data result: the daily chart the figure annotated "Sem dados
\* disponiveis", the weekday analysis the pair (None, None), the payment,
\* weekly, accumulation, evolution and histogram charts the empty figure,
\* and the rolling-day filter the table it was given.
C22_EmptyIsNoData ==
    (Aggregated /\ arg.df.rows = <<>>) =>
        /\ out.daily = Annotated("Sem dados disponiveis")
        /\ out.weekday = NoBest
        /\ out.payment = EmptyFigure
        /\ out.weekly = EmptyFigure
        /\ out.accum = EmptyFigure
        /\ out.evolution = EmptyFigure
        /\ out.histogram = EmptyFigure
        /\ out.rolling = arg.df

C22_Witness ==
    /\ Aggregated
    /\ arg.df = Frame(SheetCols \cup {"Total"} \cup DateCols, <<>>)
    /\ out.daily.kind = "annotated"
    /\ out.histogram.kind = "empty"
    /\ ~out.weekday.found


\* the records of the store the year and month filters leave
AfterYearMonth == SelectSeq(StoreFrame.rows, YearMonthOk)

\* the most recent date among them
Anchor == Max({AfterYearMonth[i].Data.n : i \in 1..Len(AfterYearMonth)})

\* the most recent date of the whole table
LatestOfStore == Max({StoreFrame.rows[i].Data.n : i \in 1..Len(StoreFrame.rows)})

\* C23: when apply_filters has filtered a store, the year and month filters
\* leave some record and days are selected (each count >= 1), the window is
\* anchored at the most recent date those records bear: the result is not
\* empty, holds every record of that date, and holds no record outside the
\* max(days) days that end on it.
C23_WindowAnchoredAfterYearMonth ==
    (/\ Applied /\ filtered.summary = Resumo
     /\ AfterYearMonth # <<>>
     /\ sel.dias # {} /\ Max(sel.dias) >= 1) =>
        LET OnAnchor(r) == r.Data.n = Anchor
        IN  /\ Returned # <<>>
            /\ SelectSeq(Returned, OnAnchor) = SelectSeq(AfterYearMonth, OnAnchor)
            /\ \A i \in 1..Len(Returned) :
                   /\ Returned[i].Data.n <= Anchor
                   /\ Returned[i].Data.n > Anchor - Max(sel.dias)

\* the table goes on after the year selected: a window ending on its last
\* date would hold no record of that year
C23_Witness ==
    /\ Applied /\ filtered.summary = Resumo
    /\ sel.anos = {2023} /\ sel.dias = {7}
    /\ AfterYearMonth # <<>>
    /\ LatestOfStore - 7 >= Anchor
    /\ Returned # <<>>


(***************************************************************************)
(* The stores and the form under a submission                              *)
(***************************************************************************)
\* C24: a submission writes neither the sales store nor the filtered
\* store, whether it appends a row or not; the sales store changes at a
\* timer tick only, so that between two ticks it holds what the earlier
\* tick loaded.
C24_SubmitLeavesStores ==
    [][/\ SubmitNewSale => (store' = store /\ filtered' = filtered)
       /\ store' # store => LoadSalesData]_vars

\* a sale has been appended after the tick that loaded the store: the
\* worksheet holds two rows and the store still the one it loaded
C24_Witness ==
    /\ message = Alert(MsgSucesso, "success")
    /\ "Data" \in sheet.cols /\ Len(sheet.rows) = 2
    /\ ~store.none /\ Len(store.rows) = 1
    /\ store.rows[1].Data = iso_format(to_datetime_strict(sheet.rows[1].Data))


\* the form with its three amount inputs empty
Cleared(f) == [f EXCEPT !.cartao = None, !.dinheiro = None, !.pix = None]

\* C27: a submission that appended a row empties the three amount inputs;
\* a submission that appended none (no date, no amount, spreadsheet
\* unreachable, write error) leaves them as they were; no submission
\* changes the date input.
C27_AmountsClearedOnSuccessOnly ==
    [][SubmitNewSale =>
          /\ form'.date = form.date
          /\ IF sheet' # sheet
             THEN message' = Alert(MsgSucesso, "success") /\ form' = Cleared(form)
             ELSE message'.color # "success" /\ form' = form]_vars

\* a submission with a date and 400 in cash has failed: the danger alert
\* is shown and the 400 is still in the input
C27_Witness ==
    /\ message \in {Alert(MsgConexao, "danger"), Alert(MsgErroAdd, "danger")}
    /\ form.date = Today /\ form.dinheiro = Num(400)


(***************************************************************************)
(* The weekly chart against the weekday analysis                           *)
(***************************************************************************)
\* C25: for one table, the best weekday analyze_sales_by_weekday returns is
\* a weekday whose bar in create_weekly_pattern_chart is the highest of the
\* seven bars.
C25_BestDayIsHighestBar ==
    (Aggregated /\ out.weekday.found) =>
        /\ out.weekly.kind = "bar"
        /\ \A k \in 1..7 :
               MeanLeq(out.weekly.data[k], out.weekly.data[out.weekday.best_day + 1])


(***************************************************************************)
(* A financial parameter given as 0                                        *)
(***************************************************************************)
\* C26: a financial parameter the user has set to 0 is used as 0 in the
\* result update_contabil_results computes: a wage of 0 gives a labor cost
\* of 0, a fee of 0 an accountant cost of 0 and a supplier percent of 0 a
\* supplier cost of 0.
C26_ZeroIsUsedAsZero ==
    Rendered =>
        /\ out.in.salario = Num(0) => out.res.custo_funcionario = 0
        /\ out.in.contadora = Num(0) => out.res.custo_contadora = 0
        /\ out.in.fornecedores = Num(0) => out.res.custo_fornecedores_valor = 0

====
